---- MODULE Spec2Model ----
(***************************************************************************)
(* Model of the promabbix configuration validator                          *)
(* (src/src/promabbix/core/validation.py): ValidationError, ConfigAnalyzer,*)
(* CrossReferenceValidator, SchemaValidator and ConfigValidator.           *)
(*                                                                         *)
(* A parsed configuration is a record; strings are TLA+ strings; a text    *)
(* built by the code (a message, a rendering) is the sequence of its       *)
(* pieces in the order the code joins them.                                *)
(***************************************************************************)
EXTENDS Integers, Sequences, FiniteSets, TLC

(***************************************************************************)
(* Bounds of the explored inputs.                                          *)
(***************************************************************************)
MaxGroups == 1
MaxAnalyzerGroups == 2
MaxRules == 2
MaxThreads == 2
MaxErrors == 3
MaxHosts == 1
MaxSuggestions == 2

(***************************************************************************)
(* Values.                                                                 *)
(***************************************************************************)
\* dict.get(key) on a missing key: Python None.
Absent == "<absent>"
\* ValidationError.path when no path is given (None).
NonePath == "<None>"

\* An alert name that rich's console markup reads as a closing tag.
TaggedName == "[/x]"

\* Alert names, in the order Python's sorted() puts them.
NameOrder == <<"A", "B", "L", TaggedName>>
\* The alert names of the configurations handed to validate_config; the
\* tagged name occurs in the runs of the application only.
Names == {NameOrder[i] : i \in 1..Len(NameOrder)} \ {TaggedName}

\* str(i) for the small naturals the model needs.
NumStr(i) == <<"0", "1", "2", "3", "4", "5", "6", "7", "8", "9">>[i + 1]

\* Python truthiness of rule.get('alert'): None and "" are falsy.
Truthy(v) == v \notin {Absent, ""}

RECURSIVE Flatten(_)
\* Concatenation of a sequence of sequences (str.join without its separator).
Flatten(ss) == IF ss = <<>> THEN <<>> ELSE Head(ss) \o Flatten(Tail(ss))

\* sorted(S) for a set of names.
Sorted(S) == SelectSeq(NameOrder, LAMBDA n : n \in S)

(***************************************************************************)
(* ValidationError                                                         *)
(***************************************************************************)
\* ValidationError(message, path, suggestions); suggestions or [].
MkError(message, path, suggestions) ==
    [message |-> message, path |-> path, suggestions |-> suggestions]

NoError == MkError(<<>>, NonePath, <<>>)

\* The newline character.
NL == "\n"

RECURSIVE JoinSeq(_, _)
\* sep.join(texts), a text being a sequence of pieces.
JoinSeq(sep, texts) ==
    IF texts = <<>> THEN <<>>
    ELSE IF Len(texts) = 1 THEN texts[1]
    ELSE texts[1] \o sep \o JoinSeq(sep, Tail(texts))

\* The list parts that format_message builds: one text per line.
format_parts(e) ==
    <<e.message>>
      \o (IF e.path \notin {NonePath, ""} THEN <<<<"Path: ", e.path>>>> ELSE <<>>)
      \o (IF e.suggestions # <<>>
            THEN <<<<"Suggestions:">>>>
                   \o [i \in 1..Len(e.suggestions) |-> <<"  - ", e.suggestions[i]>>]
            ELSE <<>>)

\* format_message with a "Path:" line for every path that is not None.
format_message_path_not_none(e) ==
    JoinSeq(<<NL>>,
            <<e.message>>
              \o (IF e.path # NonePath THEN <<<<"Path: ", e.path>>>> ELSE <<>>)
              \o (IF e.suggestions # <<>>
                    THEN <<<<"Suggestions:">>>>
                           \o [i \in 1..Len(e.suggestions) |-> <<"  - ", e.suggestions[i]>>]
                    ELSE <<>>))

\* ValidationError.format_message: "\n".join(parts).
format_message(e) == JoinSeq(<<NL>>, format_parts(e))

(***************************************************************************)
(* ConfigAnalyzer                                                          *)
(***************************************************************************)
\* config.get('groups', [])
GetGroups(config) == IF config.has_groups THEN config.groups ELSE <<>>

\* group.get('rules', [])
GetRules(group) == IF group.has_rules THEN group.rules ELSE <<>>

\* wiki.get('knowledgebase', {}).get('alerts', {}).get('alertings', {}):
\* the keys of the alertings mapping, empty when any level is missing.
\* depth counts the levels present: 0 no wiki .. 4 alertings present.
GetAlertings(wiki) == IF wiki.depth = 4 THEN wiki.alertings ELSE {}

\* config.get('wiki', {})
GetWiki(config) == config.wiki

\* The truthy 'alert' values of the rules of one group.
GroupAlertNames(group) ==
    LET rules == GetRules(group)
    IN  {rules[j].alert : j \in {k \in 1..Len(rules) : Truthy(rules[k].alert)}}

\* extract_alert_names assigning, not adding, the names of each
\* alerting_rules group: the names of the last such group remain.
extract_alert_names_last_group(groups) ==
    LET alerting == {k \in 1..Len(groups) : groups[k].name = "alerting_rules"}
    IN  IF alerting = {}
          THEN {}
          ELSE GroupAlertNames(groups[CHOOSE k \in alerting : \A m \in alerting : m <= k])

extract_alert_names(groups) ==
    UNION {GroupAlertNames(groups[i]) :
             i \in {k \in 1..Len(groups) : groups[k].name = "alerting_rules"}}

extract_wiki_alert_names(wiki) == GetAlertings(wiki)

has_wiki_knowledgebase(config) == GetAlertings(GetWiki(config)) # {}

\* has_alerting_rules testing that the rule has an 'alert' key, not that its
\* value is truthy.
has_alerting_rules_key_present(config) ==
    LET groups == GetGroups(config)
    IN  \E i \in 1..Len(groups) :
          /\ groups[i].name = "alerting_rules"
          /\ \E j \in 1..Len(GetRules(groups[i])) :
                GetRules(groups[i])[j].alert # Absent

has_alerting_rules(config) ==
    LET groups == GetGroups(config)
    IN  \E i \in 1..Len(groups) :
          /\ groups[i].name = "alerting_rules"
          /\ \E j \in 1..Len(GetRules(groups[i])) :
                Truthy(GetRules(groups[i])[j].alert)

(***************************************************************************)
(* CrossReferenceValidator                                                 *)
(***************************************************************************)
\* The gate with "or" in place of "and".
should_validate_wiki_consistency_or(config) ==
    has_alerting_rules(config) \/ has_wiki_knowledgebase(config)

should_validate_wiki_consistency(config) ==
    has_alerting_rules(config) /\ has_wiki_knowledgebase(config)

WikiPath == "wiki.knowledgebase.alerts.alertings"

\* The error appended when alert_names - wiki_alert_names is non-empty.
MissingDocsError(missing_docs) ==
    MkError(<<"Alerts missing wiki documentation: ">> \o Sorted(missing_docs),
            WikiPath,
            <<"Add documentation for each alert in the wiki.knowledgebase.alerts.alertings section",
              "Ensure alert names match exactly between groups and wiki sections">>)

\* The error appended when wiki_alert_names - alert_names is non-empty.
ExtraDocsError(extra_docs) ==
    MkError(<<"Wiki documentation exists for undefined alerts: ">> \o Sorted(extra_docs),
            WikiPath,
            <<"Remove documentation for non-existent alerts",
              "Check for typos in alert names">>)

\* validate_alert_wiki_consistency with the comparison switched off.
validate_alert_wiki_consistency_disabled(config) == <<>>

validate_alert_wiki_consistency(config) ==
    IF ~should_validate_wiki_consistency(config)
      THEN <<>>
      ELSE LET alert_names == extract_alert_names(GetGroups(config))
               wiki_alert_names == extract_wiki_alert_names(GetWiki(config))
               missing_docs == alert_names \ wiki_alert_names
               extra_docs == wiki_alert_names \ alert_names
           IN  (IF missing_docs # {} THEN <<MissingDocsError(missing_docs)>> ELSE <<>>)
                 \o (IF extra_docs # {} THEN <<ExtraDocsError(extra_docs)>> ELSE <<>>)

validate_template_references(config) == <<>>

validate_macro_consistency(config) == <<>>

\* A node of the configuration that is present but null, config.malformed:
\* "group_null" a null element after the groups of the list, "wiki_null"
\* wiki itself, "knowledgebase_null", "alerts_null" and "alertings_null" the
\* level of that name under a wiki present down to the level above it.
NullNodes ==
    {"group_null", "wiki_null", "knowledgebase_null", "alerts_null", "alertings_null"}

\* has_alerting_rules reaches the null group, None.get: AttributeError. It
\* does not when an earlier group made it return True.
has_alerting_rules_raises(config) ==
    config.malformed = "group_null" /\ ~has_alerting_rules(config)

\* has_wiki_knowledgebase calls .get on the null level: AttributeError. A
\* null alertings is only handed to bool().
has_wiki_knowledgebase_raises(config) ==
    config.malformed \in {"wiki_null", "knowledgebase_null", "alerts_null"}

\* extract_alert_names visits every element of groups: AttributeError on the
\* null one.
extract_alert_names_raises(config) == config.malformed = "group_null"

(***************************************************************************)
(* SchemaValidator                                                         *)
(*                                                                         *)
(* jsonschema.validate(data, schema) raises the best match of the          *)
(* violations of the schema, or nothing.  A violation is a record          *)
(*   [validator, message, absolute_path, schema, context]                  *)
(* message: the words of the library's message; absolute_path: the parts   *)
(* of the path, an index being a part with int = TRUE; schema: the keys    *)
(* of the violated sub-schema that generate_suggestions reads.             *)
(***************************************************************************)
KeyPart(k) == [int |-> FALSE, v |-> k]
IdxPart(i) == [int |-> TRUE, v |-> NumStr(i)]

\* error.schema.get(...) defaults: 'unknown', [], '', 0, 0.
SubSchema(type, enum) ==
    [type |-> type, enum |-> enum, pattern |-> "", minItems |-> "0", maxItems |-> "0"]

JsError(validator, message, path, schema) ==
    [validator |-> validator, message |-> message, absolute_path |-> path,
     schema |-> schema, context |-> <<>>]

RequiredViolation(field, path) ==
    JsError("required", <<"'" \o field \o "'", "is", "a", "required", "property">>,
            path, SubSchema("object", <<>>))

GroupNameEnum == <<"recording_rules", "alerting_rules">>

EnumViolation(value, path) ==
    JsError("enum",
            <<"'" \o value \o "'", "is", "not", "one", "of",
              "['recording_rules',", "'alerting_rules']">>,
            path, SubSchema("string", GroupNameEnum))

\* A value of another type than the schema declares; 'oops' stands for it.
TypeViolation(type, path) ==
    JsError("type", <<"'oops'", "is", "not", "of", "type", "'" \o type \o "'">>,
            path, SubSchema(type, <<>>))

\* The violations of one element of zabbix.hosts.
HostViolations(host, i) ==
    LET path == <<KeyPart("zabbix"), KeyPart("hosts"), IdxPart(i - 1)>>
    IN  IF host.type # "object"
          THEN <<TypeViolation("object", path)>>
          ELSE (IF ~host.host_name THEN <<RequiredViolation("host_name", path)>> ELSE <<>>)
                 \o (IF ~host.host_groups
                       THEN <<RequiredViolation("host_groups", path)>> ELSE <<>>)
                 \o (IF ~host.link_templates
                       THEN <<RequiredViolation("link_templates", path)>> ELSE <<>>)

\* The violations of one rule of a group of the bundled schema.
RuleViolations(group, i, j) ==
    LET rule == group.rules[j]
        path == <<KeyPart("groups"), IdxPart(i - 1), KeyPart("rules"), IdxPart(j - 1)>>
    IN  (IF group.name = "recording_rules" /\ rule.record = Absent
           THEN <<RequiredViolation("record", path)>> ELSE <<>>)
          \o (IF group.name = "alerting_rules" /\ rule.alert = Absent
                THEN <<RequiredViolation("alert", path)>> ELSE <<>>)
          \o (IF rule.expr = Absent
                THEN <<RequiredViolation("expr", path)>> ELSE <<>>)

\* The violations of one element of groups.
GroupViolations(group, i) ==
    LET path == <<KeyPart("groups"), IdxPart(i - 1)>>
    IN  (IF group.name = Absent THEN <<RequiredViolation("name", path)>> ELSE <<>>)
          \o (IF ~group.has_rules THEN <<RequiredViolation("rules", path)>> ELSE <<>>)
          \o (IF group.name \notin {Absent, "recording_rules", "alerting_rules"}
                THEN <<EnumViolation(group.name, path \o <<KeyPart("name")>>)>>
                ELSE <<>>)
          \o Flatten([j \in 1..Len(GetRules(group)) |-> RuleViolations(group, i, j)])

\* The violation of the declared type "object" by a null node.
NullNodeViolations(config) ==
    IF config.malformed = "group_null"
      THEN <<TypeViolation("object",
                           <<KeyPart("groups"), IdxPart(Len(GetGroups(config)))>>)>>
    ELSE IF config.malformed = "wiki_null"
      THEN <<TypeViolation("object", <<KeyPart("wiki")>>)>>
    ELSE IF config.malformed = "knowledgebase_null"
      THEN <<TypeViolation("object", <<KeyPart("wiki"), KeyPart("knowledgebase")>>)>>
    ELSE IF config.malformed = "alerts_null"
      THEN <<TypeViolation("object",
                           <<KeyPart("wiki"), KeyPart("knowledgebase"), KeyPart("alerts")>>)>>
    ELSE IF config.malformed = "alertings_null"
      THEN <<TypeViolation("object",
                           <<KeyPart("wiki"), KeyPart("knowledgebase"), KeyPart("alerts"),
                             KeyPart("alertings")>>)>>
    ELSE <<>>

\* Every violation of the bundled schema (schemas/unified.json), in the
\* order of its checks: required root fields, then groups, then hosts.
BuiltinViolations(config) ==
    (IF ~config.has_groups THEN <<RequiredViolation("groups", <<>>)>> ELSE <<>>)
      \o (IF ~config.has_zabbix THEN <<RequiredViolation("zabbix", <<>>)>> ELSE <<>>)
      \o (IF config.has_groups /\ config.groups_type # "array"
            THEN <<TypeViolation("array", <<KeyPart("groups")>>)>> ELSE <<>>)
      \o Flatten([i \in 1..Len(GetGroups(config)) |->
                    GroupViolations(GetGroups(config)[i], i)])
      \o (IF config.has_zabbix
            THEN Flatten([i \in 1..Len(config.hosts) |->
                            HostViolations(config.hosts[i], i)])
            ELSE <<>>)
      \o NullNodeViolations(config)

\* The custom schema of a caller:
\* {"type": "object", "properties": {"groups": {"type": "array"}}}.
PermissiveViolations(config) ==
    IF config.has_groups /\ config.groups_type # "array"
      THEN <<TypeViolation("array", <<KeyPart("groups")>>)>>
      ELSE <<>>

Schemas == {"builtin", "permissive"}

SchemaPathOf(schema) ==
    IF schema = "builtin" THEN "schemas/unified.json" ELSE "test_schema.json"

Violations(config, schema) ==
    IF schema = "builtin" THEN BuiltinViolations(config) ELSE PermissiveViolations(config)

\* jsonschema's best_match: the most relevant violation is the first one
\* with the shortest path.
BestMatch(errs) ==
    LET shortest == CHOOSE n \in {Len(errs[i].absolute_path) : i \in 1..Len(errs)} :
                       \A i \in 1..Len(errs) : n <= Len(errs[i].absolute_path)
        first == CHOOSE i \in 1..Len(errs) :
                    /\ Len(errs[i].absolute_path) = shortest
                    /\ \A k \in 1..(i - 1) : Len(errs[k].absolute_path) # shortest
    IN  errs[first]

\* jsonschema.validate(data, schema): the raised violation, as a sequence
\* of length 0 or 1.  The library raises best_match(errors) and nothing
\* else; SchemaValidator.validate never calls iter_errors, so the other
\* violations of the configuration are lost here (validation.py:307-309).
\* A "required" violation carries no context, so validate adds no
\* sub-error either (validation.py:314-316).  The aggregate "Multiple
\* validation errors found" that tests/test_validation_coverage.py:61-84
\* expects for an invalid group name, an incomplete rule and a missing
\* zabbix section therefore does not arise from this code.
JsonschemaValidate(config, schema) ==
    LET errs == Violations(config, schema)
    IN  IF errs = <<>> THEN <<>> ELSE <<BestMatch(errs)>>

RECURSIVE Join(_, _)
\* sep.join(parts)
Join(sep, parts) ==
    IF parts = <<>> THEN ""
    ELSE IF Len(parts) = 1 THEN parts[1]
    ELSE parts[1] \o sep \o Join(sep, Tail(parts))

generate_suggestions(error) ==
    IF error.validator = "required"
      THEN <<"Add the required field: " \o error.message[Len(error.message)]>>
    ELSE IF error.validator = "type"
      THEN <<"Change value to type: " \o error.schema.type>>
    ELSE IF error.validator = "enum"
      THEN <<"Use one of the allowed values: " \o Join(", ", error.schema.enum)>>
    ELSE IF error.validator = "pattern"
      THEN <<"Value must match pattern: " \o error.schema.pattern>>
    ELSE IF error.validator = "additionalProperties"
      THEN <<"Remove unexpected properties or check property names for typos">>
    ELSE IF error.validator = "minItems"
      THEN <<"Array must have at least " \o error.schema.minItems \o " items">>
    ELSE IF error.validator = "maxItems"
      THEN <<"Array must have at most " \o error.schema.maxItems \o " items">>
    ELSE <<"Check the schema documentation for valid values">>

convert_jsonschema_error(error) ==
    LET path_parts == [i \in 1..Len(error.absolute_path) |->
                         IF error.absolute_path[i].int
                           THEN "[" \o error.absolute_path[i].v \o "]"
                           ELSE error.absolute_path[i].v]
        path == IF path_parts # <<>> THEN Join(".", path_parts) ELSE "root"
    IN  MkError(error.message, path, generate_suggestions(error))

\* SchemaValidator(schema).validate(data)
SchemaValidate(config, schema) ==
    LET raised == JsonschemaValidate(config, schema)
    IN  IF raised = <<>>
          THEN <<>>
          ELSE <<convert_jsonschema_error(raised[1])>>
                 \o [k \in 1..Len(raised[1].context) |->
                       convert_jsonschema_error(raised[1].context[k])]

(***************************************************************************)
(* ConfigValidator                                                         *)
(***************************************************************************)
\* ConfigValidator.default_schema_path()
default_schema_path == "schemas/unified.json"

\* The files a schema path may name, by what open() and json.load() find:
\* "builtin" and "permissive" are JSON documents, "yaml" is a YAML document
\* that is not JSON, "bad_json" and "bad_yaml" are malformed, "directory"
\* is a directory, "binary" holds bytes that are not UTF-8 text, "missing"
\* does not exist.
FileAt(path) ==
    IF path = default_schema_path THEN "builtin"
    ELSE IF path = "test_schema.json" THEN "permissive"
    ELSE IF path = "schema.yaml" THEN "yaml"
    ELSE IF path = "invalid_schema.json" THEN "bad_json"
    ELSE IF path = "invalid_schema.yaml" THEN "bad_yaml"
    ELSE IF path = "a_directory" THEN "directory"
    ELSE IF path = "binary_schema.json" THEN "binary"
    ELSE "missing"

\* str(e) of the json.JSONDecodeError of json.load(f): the position of the
\* first character that starts no JSON value.  A YAML document fails at
\* its first character, {"invalid": "json", "missing": } at its closing
\* brace.
JsonCause(file) ==
    IF file = "bad_json" THEN "Expecting value: line 1 column 32 (char 31)"
    ELSE "Expecting value: line 1 column 1 (char 0)"

\* self.schema_path = schema_path or self.default_schema_path()
SchemaPathFor(schema_path_arg) ==
    IF schema_path_arg \in {Absent, ""} THEN default_schema_path ELSE schema_path_arg

\* ConfigValidator.load_schema with self.schema_path = path: the loaded
\* schema, the ValidationError raised for FileNotFoundError and
\* json.JSONDecodeError, or the exception of open and read that no except
\* clause catches ("crashed").
load_schema(path) ==
    LET file == FileAt(path)
    IN  IF file = "missing"
          THEN [status |-> "raised", schema |-> Absent,
                error |-> MkError(<<"Schema file not found: " \o path>>, NonePath,
                                  <<"Ensure the unified schema file exists at the expected path">>)]
        ELSE IF file \in {"bad_json", "bad_yaml", "yaml"}
          THEN [status |-> "raised", schema |-> Absent,
                error |-> MkError(<<"Invalid JSON in schema file: ", JsonCause(file)>>, path,
                                  <<"Check the schema file for valid JSON syntax">>)]
        ELSE IF file = "directory"
          THEN [status |-> "crashed", schema |-> Absent,
                error |-> MkError(<<"IsADirectoryError">>, NonePath, <<>>)]
        ELSE IF file = "binary"
          THEN [status |-> "crashed", schema |-> Absent,
                error |-> MkError(<<"UnicodeDecodeError">>, NonePath, <<>>)]
        ELSE [status |-> "returned", schema |-> file, error |-> NoError]

\* The aggregation embedding error.message in place of format_message().
SchemaPhaseError_message_only(errors) ==
    IF Len(errors) = 1
      THEN errors[1]
      ELSE MkError(<<"Multiple validation errors found:", NL>>
                     \o JoinSeq(<<NL, NL>>,
                                [i \in 1..Len(errors) |->
                                   <<"Error " \o NumStr(i) \o ": ">> \o errors[i].message]),
                   NonePath,
                   <<"Fix all validation errors to proceed">>)

\* The error validate_json_schema raises for a non-empty error list.
SchemaPhaseError(errors) ==
    IF Len(errors) = 1
      THEN errors[1]
      ELSE MkError(<<"Multiple validation errors found:", NL>>
                     \o JoinSeq(<<NL, NL>>,
                                [i \in 1..Len(errors) |->
                                   <<"Error " \o NumStr(i) \o ": ">>
                                     \o format_message(errors[i])]),
                   NonePath,
                   <<"Fix all validation errors to proceed">>)

\* The error list validate_cross_references builds.
CrossReferenceErrors(config) ==
    validate_alert_wiki_consistency(config)
      \o validate_template_references(config)
      \o validate_macro_consistency(config)

\* The error validate_cross_references raises for a non-empty error list.
CrossPhaseError(errors) ==
    IF Len(errors) = 1
      THEN errors[1]
      ELSE MkError(<<"Multiple cross-reference validation errors found:", NL>>
                     \o JoinSeq(<<NL, NL>>,
                                [i \in 1..Len(errors) |->
                                   <<"Cross-reference error " \o NumStr(i) \o ": ">>
                                     \o format_message(errors[i])]),
                   NonePath,
                   <<"Fix all cross-reference errors to proceed">>)

should_validate_cross_references(config) ==
    LET has_alerts == has_alerting_rules(config)
        has_wiki == has_wiki_knowledgebase(config)
    IN  has_alerts /\ has_wiki

\* The outcome of a call: returned normally, or raised one error.
Returned == [status |-> "returned", error |-> NoError]
\* An exception that is no ValidationError left the call.
Crashed(exception) == [status |-> "crashed", error |-> MkError(<<exception>>, NonePath, <<>>)]
Raised(e) == [status |-> "raised", error |-> e]
Pending == [status |-> "pending", error |-> NoError]

\* validate_config(config_data) run from start to end on a validator whose
\* loaded schema is schema.
validate_config(config, schema) ==
    LET errors == SchemaValidate(config, schema)
    IN  IF errors # <<>>
          THEN Raised(SchemaPhaseError(errors))
        ELSE IF has_alerting_rules_raises(config) \/ has_wiki_knowledgebase_raises(config)
          THEN Crashed("AttributeError")
        ELSE IF should_validate_cross_references(config) /\ extract_alert_names_raises(config)
          THEN Crashed("AttributeError")
        ELSE IF should_validate_cross_references(config)
                  /\ CrossReferenceErrors(config) # <<>>
          THEN Raised(CrossPhaseError(CrossReferenceErrors(config)))
        ELSE Returned

(***************************************************************************)
(* Inputs: the configurations handed to validate_config.                   *)
(***************************************************************************)
AlertRule(a) == [alert |-> a, record |-> Absent, expr |-> "e"]
RecordRule == [alert |-> Absent, record |-> "r", expr |-> "e"]
BareRule == [alert |-> Absent, record |-> Absent, expr |-> "e"]

RuleVals == {AlertRule("A"), AlertRule("B"), RecordRule, BareRule}

GroupNames == {"recording_rules", "alerting_rules", "bogus"}

Group(name, rules) == [name |-> name, has_rules |-> TRUE, rules |-> rules]

RuleSeqs == UNION {[1..k -> RuleVals] : k \in 0..MaxRules}

GroupVals == {Group(n, rs) : n \in GroupNames, rs \in RuleSeqs}

RECURSIVE TotalRules(_)
TotalRules(groups) ==
    IF groups = <<>> THEN 0 ELSE Len(Head(groups).rules) + TotalRules(Tail(groups))

\* Lists of at most MaxGroups groups holding at most MaxRules rules together.
GroupSeqs ==
    {gs \in UNION {[1..k -> GroupVals] : k \in 0..MaxGroups} : TotalRules(gs) <= MaxRules}

NoWiki == [depth |-> 0, alertings |-> {}]
Wiki(keys) == [depth |-> 4, alertings |-> keys]

\* No wiki, a wiki cut short at each level, an empty alertings mapping, and
\* every non-empty set of documented names.
WikiVals ==
    {[depth |-> d, alertings |-> {}] : d \in 0..4}
      \cup {Wiki(S) : S \in (SUBSET Names) \ {{}}}

\* A configuration: groups of type groups_type (the list groups when it is
\* an array), the zabbix section with its hosts, the wiki.
ConfigWith(has_groups, groups_type, groups, has_zabbix, hosts, wiki) ==
    [has_groups |-> has_groups, groups_type |-> groups_type, groups |-> groups,
     has_zabbix |-> has_zabbix, hosts |-> hosts, wiki |-> wiki, malformed |-> "none"]

\* A configuration whose groups is a list and whose zabbix has no hosts.
Config(has_groups, groups, has_zabbix, wiki) ==
    ConfigWith(has_groups, "array", groups, has_zabbix, <<>>, wiki)

Configs ==
    {Config(TRUE, gs, z, w) : gs \in GroupSeqs, z \in BOOLEAN, w \in WikiVals}
      \cup {Config(FALSE, <<>>, z, w) : z \in BOOLEAN, w \in WikiVals}

\* The configurations of the concurrent calls: passing with and without
\* wiki, one and two cross-reference errors, a schema error.
ConcConfigs ==
    {Config(TRUE, gs, TRUE, w) :
       gs \in {<<>>,
               <<Group("alerting_rules", <<AlertRule("A")>>)>>,
               <<Group("alerting_rules", <<AlertRule("A"), AlertRule("B")>>)>>,
               <<Group("bogus", <<>>)>>},
       w \in {NoWiki, Wiki({"A"}), Wiki({"L"})}}

NullConfig == Config(FALSE, <<>>, FALSE, NoWiki)

\* A host, by the keys it has.
Host(host_name, host_groups, link_templates, visible_name) ==
    [type |-> "object", host_name |-> host_name, host_groups |-> host_groups,
     link_templates |-> link_templates, visible_name |-> visible_name]

\* An element of hosts that is a string, not a mapping.
StringHost ==
    [type |-> "string", host_name |-> FALSE, host_groups |-> FALSE,
     link_templates |-> FALSE, visible_name |-> FALSE]

HostVals ==
    {Host(n, g, l, v) : n \in BOOLEAN, g \in BOOLEAN, l \in BOOLEAN, v \in BOOLEAN}
      \cup {StringHost}

HostSeqs == UNION {[1..k -> HostVals] : k \in 0..MaxHosts}

\* The data handed to SchemaValidator.validate: every list of groups, groups
\* that is not a list, and every list of hosts.
SchemaInputs ==
    {c \in Configs : c.wiki = NoWiki}
      \cup {ConfigWith(TRUE, "string", <<>>, z, <<>>, NoWiki) : z \in BOOLEAN}
      \cup {ConfigWith(g, "array", <<>>, TRUE, hs, NoWiki) : g \in BOOLEAN, hs \in HostSeqs}

\* The configuration c with the node k null: the wiki is present down to
\* the level above the null one.
WithNull(c, k) ==
    [c EXCEPT !.malformed = k,
              !.wiki = IF k = "wiki_null" THEN NoWiki
                       ELSE IF k = "knowledgebase_null" THEN [depth |-> 1, alertings |-> {}]
                       ELSE IF k = "alerts_null" THEN [depth |-> 2, alertings |-> {}]
                       ELSE IF k = "alertings_null" THEN [depth |-> 3, alertings |-> {}]
                       ELSE @]

\* Configurations with and without a null node.
MalformedConfigs ==
    ConcConfigs \cup {WithNull(c, k) : c \in ConcConfigs, k \in NullNodes}

\* The arguments of ValidationError(message, path, suggestions): no path,
\* the empty path, the root and a nested path; up to MaxSuggestions
\* suggestions.
MessageVals == {<<"Test error">>, <<"'zabbix'", "is", "a", "required", "property">>}

PathVals == {NonePath, "", "root", "groups[0].rules[0].record"}

SuggestionVals == {"Add the required field", "Check the documentation"}

SuggestionSeqs == UNION {[1..k -> SuggestionVals] : k \in 0..MaxSuggestions}

ErrorArgs ==
    {MkError(m, p, ss) : m \in MessageVals, p \in PathVals, ss \in SuggestionSeqs}

\* error.validator of the violations handed to convert_jsonschema_error: the
\* seven keywords generate_suggestions knows and one it does not.
ValidatorVals ==
    {"required", "type", "enum", "pattern", "additionalProperties",
     "minItems", "maxItems", "format"}

\* error.absolute_path: the root, groups, a group, its name, a rule, a field
\* of a rule.
AbsolutePaths ==
    {<<>>, <<KeyPart("groups")>>}
      \cup {<<KeyPart("groups"), IdxPart(i)>> : i \in 0..MaxGroups}
      \cup {<<KeyPart("groups"), IdxPart(i), KeyPart("name")>> : i \in 0..MaxGroups}
      \cup {<<KeyPart("groups"), IdxPart(i), KeyPart("rules"), IdxPart(j)>> :
               i \in 0..MaxGroups, j \in 0..MaxRules}
      \cup {<<KeyPart("groups"), IdxPart(i), KeyPart("rules"), IdxPart(j), KeyPart(f)>> :
               i \in 0..MaxGroups, j \in 0..MaxRules, f \in {"record", "alert", "expr"}}

JsErrorVals ==
    {JsError(v, <<"Validation", "error", "in", "nested", "field">>, path,
             SubSchema("array", GroupNameEnum)) :
       v \in ValidatorVals, path \in AbsolutePaths}

NullJsError == JsError("", <<>>, <<>>, SubSchema("", <<>>))

\* The groups handed to the analyzers: with and without name, with and
\* without rules.
\* A rule whose alert is the empty string.
EmptyAlertRule == [alert |-> "", record |-> Absent, expr |-> "e"]

AnalyzerRuleSeqs ==
    UNION {[1..k -> RuleVals \cup {EmptyAlertRule}] : k \in 0..MaxRules}

AnalyzerGroupVals ==
    {[name |-> n, has_rules |-> TRUE, rules |-> rs] :
       n \in {Absent, "alerting_rules", "recording_rules"}, rs \in AnalyzerRuleSeqs}
      \cup {[name |-> n, has_rules |-> FALSE, rules |-> <<>>] :
               n \in {Absent, "alerting_rules", "recording_rules"}}

AnalyzerGroupSeqs ==
    {gs \in UNION {[1..k -> AnalyzerGroupVals] : k \in 0..MaxGroups} :
       TotalRules(gs) <= MaxRules}

\* The groups of at most one rule.
AnalyzerSmallGroupVals == {g \in AnalyzerGroupVals : Len(g.rules) <= 1}

\* Lists of MaxGroups + 1 up to MaxAnalyzerGroups groups of at most one
\* rule each: several groups named alerting_rules, and groups of other
\* names beside them.
AnalyzerLongGroupSeqs ==
    UNION {[1..k -> AnalyzerSmallGroupVals] : k \in (MaxGroups + 1)..MaxAnalyzerGroups}

\* The configurations handed to the analyzers: with and without groups, and
\* every wiki of WikiVals.
AnalyzerInputs ==
    {Config(TRUE, gs, TRUE, w) : gs \in AnalyzerGroupSeqs, w \in WikiVals}
      \cup {Config(FALSE, <<>>, TRUE, w) : w \in WikiVals}

\* The configurations with the longer lists of groups, without wiki and
\* with a documented alert.
AnalyzerLongInputs ==
    {Config(TRUE, gs, TRUE, w) : gs \in AnalyzerLongGroupSeqs, w \in {NoWiki, Wiki({"A"})}}

\* Error lists handed to the aggregation of a phase.
ErrorPool ==
    {MissingDocsError({"B"}),
     convert_jsonschema_error(RequiredViolation("zabbix", <<>>)),
     MkError(<<"m">>, NonePath, <<>>),
     MkError(<<"n">>, "groups", <<>>)}

ErrorLists == UNION {[1..k -> ErrorPool] : k \in 1..MaxErrors}

(***************************************************************************)
(* State.                                                                  *)
(***************************************************************************)
VARIABLES
    schema,       \* ConfigValidator.schema
    schema_path,  \* ConfigValidator.schema_path
    loaded,       \* the schema and path as the constructor left them
    pc,           \* position of each validate_config call
    cfg,          \* the configuration object each call works on
    arg,          \* the configuration as it was when the call started
    serrs,        \* errors of the call's schema phase
    xerrs,        \* errors of the call's cross-reference phase
    xcalled,      \* whether the call has invoked the CrossReferenceValidator
    result,       \* outcome of the call
    raises,       \* number of errors the call has raised
    aggE,         \* error list handed to the aggregation of a phase
    aggSchema,    \* what validate_json_schema raises for aggE
    aggCross      \* what validate_cross_references raises for aggE

VARIABLES
    ctor,         \* the last ConfigValidator(...) call: argument and outcome
    sdata,        \* the data handed to SchemaValidator.validate
    sout,         \* its outcome
    verr,         \* the arguments of a ValidationError(...)
    vstr,         \* the rendering of that error
    jerr,         \* the violation handed to convert_jsonschema_error
    jout,         \* its outcome
    adata,        \* the configuration handed to the ConfigAnalyzer functions
    aout,         \* their outcome
    app           \* one run of the command line application

vars == <<schema, schema_path, loaded, pc, cfg, arg, serrs, xerrs, xcalled,
          result, raises, aggE, aggSchema, aggCross, ctor,
          sdata, sout, verr, vstr, jerr, jout, adata, aout, app>>

callvars == <<pc, cfg, arg, serrs, xerrs, xcalled, result, raises>>
instvars == <<schema, schema_path, loaded>>
aggvars == <<aggE, aggSchema, aggCross>>
purevars == <<jerr, jout, adata, aout, app>>
auxvars == <<ctor, sdata, sout, verr, vstr, purevars>>

\* The constructor returned the instance.
CtorBuilt(schema_path_arg) ==
    [status |-> "built", arg |-> schema_path_arg, error |-> NoError]

\* The outcome of a function not called yet.
NotCalled == [status |-> "pending", value |-> <<>>]

SchemaIdle ==
    /\ sdata = NullConfig
    /\ sout = NotCalled

ErrorIdle ==
    /\ verr = NoError
    /\ vstr = NotCalled

ConvertIdle ==
    /\ jerr = NullJsError
    /\ jout = NotCalled

\* No run of the application.
NoRun ==
    [pc |-> "none", entry |-> "main", validate_only |-> FALSE, alertrules |-> "-",
     output |-> "-", cwd |-> "/work", config |-> NullConfig, calls |-> <<>>, validation |-> Pending,
     content |-> "none", failed |-> "none", write |-> "none", file |-> "absent",
     stdout |-> "nothing", exit |-> -1, escaped |-> FALSE]

AnalyzerIdle ==
    /\ adata = NullConfig
    /\ aout = NotCalled
    /\ app = NoRun

\* The state of what a specification does not exercise.
AuxIdle ==
    /\ ctor = CtorBuilt(schema_path)
    /\ SchemaIdle
    /\ ErrorIdle
    /\ ConvertIdle
    /\ AnalyzerIdle

Threads == 1..MaxThreads

\* ConfigValidator.__init__ with one of the schema files, no call started.
InitValidator ==
    /\ schema \in Schemas
    /\ schema_path = SchemaPathOf(schema)
    /\ loaded = [schema |-> schema, schema_path |-> schema_path]
    /\ pc = [t \in Threads |-> "idle"]
    /\ cfg = [t \in Threads |-> NullConfig]
    /\ arg = [t \in Threads |-> NullConfig]
    /\ serrs = [t \in Threads |-> <<>>]
    /\ xerrs = [t \in Threads |-> <<>>]
    /\ xcalled = [t \in Threads |-> FALSE]
    /\ result = [t \in Threads |-> Pending]
    /\ raises = [t \in Threads |-> 0]

AggIdle ==
    /\ aggE = <<>>
    /\ aggSchema = Pending
    /\ aggCross = Pending

Init ==
    /\ InitValidator
    /\ AggIdle
    /\ AuxIdle

(***************************************************************************)
(* validate_config, step by step.                                          *)
(***************************************************************************)
\* A caller invokes validate_config(c).
Call(t, c) ==
    /\ pc[t] = "idle"
    /\ pc' = [pc EXCEPT ![t] = "schema"]
    /\ cfg' = [cfg EXCEPT ![t] = c]
    /\ arg' = [arg EXCEPT ![t] = c]
    /\ serrs' = [serrs EXCEPT ![t] = <<>>]
    /\ xerrs' = [xerrs EXCEPT ![t] = <<>>]
    /\ xcalled' = [xcalled EXCEPT ![t] = FALSE]
    /\ result' = [result EXCEPT ![t] = Pending]
    /\ raises' = [raises EXCEPT ![t] = 0]
    /\ UNCHANGED <<instvars, aggvars, auxvars>>

\* The schema phase keeping its errors in a list shared by the calls in
\* progress, so that a call also raises the errors another call left there.
validate_json_schema_shared_errors(t) ==
    /\ pc[t] = "schema"
    /\ LET errors == SchemaValidate(cfg[t], schema)
                       \o Flatten([u \in Threads |-> IF u = t THEN <<>> ELSE serrs[u]])
       IN  /\ serrs' = [serrs EXCEPT ![t] = errors]
           /\ IF errors # <<>>
                THEN /\ result' = [result EXCEPT ![t] = Raised(SchemaPhaseError(errors))]
                     /\ raises' = [raises EXCEPT ![t] = @ + 1]
                     /\ pc' = [pc EXCEPT ![t] = "done"]
                ELSE /\ pc' = [pc EXCEPT ![t] = "gate"]
                     /\ UNCHANGED <<result, raises>>
    /\ UNCHANGED <<cfg, arg, xerrs, xcalled, instvars, aggvars, auxvars>>

\* The schema phase collecting its errors without raising them.
validate_json_schema_no_raise(t) ==
    /\ pc[t] = "schema"
    /\ serrs' = [serrs EXCEPT ![t] = SchemaValidate(cfg[t], schema)]
    /\ pc' = [pc EXCEPT ![t] = "gate"]
    /\ UNCHANGED <<result, raises, cfg, arg, xerrs, xcalled, instvars, aggvars, auxvars>>

\* self.validate_json_schema(config_data)
validate_json_schema(t) ==
    /\ pc[t] = "schema"
    /\ LET errors == SchemaValidate(cfg[t], schema)
       IN  /\ serrs' = [serrs EXCEPT ![t] = errors]
           /\ IF errors # <<>>
                THEN /\ result' = [result EXCEPT ![t] = Raised(SchemaPhaseError(errors))]
                     /\ raises' = [raises EXCEPT ![t] = @ + 1]
                     /\ pc' = [pc EXCEPT ![t] = "done"]
                ELSE /\ pc' = [pc EXCEPT ![t] = "gate"]
                     /\ UNCHANGED <<result, raises>>
    /\ UNCHANGED <<cfg, arg, xerrs, xcalled, instvars, aggvars, auxvars>>

\* The gate reading the wiki with config.setdefault('wiki', {}).
check_cross_reference_gate_setdefault(t) ==
    /\ pc[t] = "gate"
    /\ cfg' = [cfg EXCEPT ![t].wiki = IF @.depth = 0 THEN [depth |-> 1, alertings |-> {}] ELSE @]
    /\ IF should_validate_cross_references(cfg[t])
         THEN /\ pc' = [pc EXCEPT ![t] = "xref"]
              /\ UNCHANGED result
         ELSE /\ pc' = [pc EXCEPT ![t] = "done"]
              /\ result' = [result EXCEPT ![t] = Returned]
    /\ UNCHANGED <<arg, serrs, xerrs, xcalled, raises, instvars, aggvars, auxvars>>

\* if self.should_validate_cross_references(config_data)
check_cross_reference_gate(t) ==
    /\ pc[t] = "gate"
    /\ IF has_alerting_rules_raises(cfg[t]) \/ has_wiki_knowledgebase_raises(cfg[t])
         THEN /\ pc' = [pc EXCEPT ![t] = "done"]
              /\ result' = [result EXCEPT ![t] = Crashed("AttributeError")]
         ELSE IF should_validate_cross_references(cfg[t])
           THEN /\ pc' = [pc EXCEPT ![t] = "xref"]
                /\ UNCHANGED result
           ELSE /\ pc' = [pc EXCEPT ![t] = "done"]
                /\ result' = [result EXCEPT ![t] = Returned]
    /\ UNCHANGED <<cfg, arg, serrs, xerrs, xcalled, raises, instvars, aggvars, auxvars>>

\* The cross-reference phase dropping the errors it found.
validate_cross_references_no_raise(t) ==
    /\ pc[t] = "xref"
    /\ xerrs' = [xerrs EXCEPT ![t] = CrossReferenceErrors(cfg[t])]
    /\ xcalled' = [xcalled EXCEPT ![t] = TRUE]
    /\ result' = [result EXCEPT ![t] = Returned]
    /\ pc' = [pc EXCEPT ![t] = "done"]
    /\ UNCHANGED <<raises, cfg, arg, serrs, instvars, aggvars, auxvars>>

\* The cross-reference phase reading the configuration from an attribute
\* of the instance, which any call in progress may have set.
validate_cross_references_shared_config(t) ==
    /\ pc[t] = "xref"
    /\ \E u \in {v \in Threads : pc[v] # "idle"} :
         LET errors == CrossReferenceErrors(cfg[u])
         IN  /\ xerrs' = [xerrs EXCEPT ![t] = errors]
             /\ xcalled' = [xcalled EXCEPT ![t] = TRUE]
             /\ IF errors # <<>>
                  THEN /\ result' = [result EXCEPT ![t] = Raised(CrossPhaseError(errors))]
                       /\ raises' = [raises EXCEPT ![t] = @ + 1]
                  ELSE /\ result' = [result EXCEPT ![t] = Returned]
                       /\ UNCHANGED raises
             /\ pc' = [pc EXCEPT ![t] = "done"]
    /\ UNCHANGED <<cfg, arg, serrs, instvars, aggvars, auxvars>>

\* self.validate_cross_references(config_data)
validate_cross_references(t) ==
    /\ pc[t] = "xref"
    /\ LET errors == IF extract_alert_names_raises(cfg[t])
                       THEN <<>> ELSE CrossReferenceErrors(cfg[t])
       IN  /\ xerrs' = [xerrs EXCEPT ![t] = errors]
           /\ xcalled' = [xcalled EXCEPT ![t] = TRUE]
           /\ IF extract_alert_names_raises(cfg[t])
                THEN /\ result' = [result EXCEPT ![t] = Crashed("AttributeError")]
                     /\ UNCHANGED raises
              ELSE IF errors # <<>>
                THEN /\ result' = [result EXCEPT ![t] = Raised(CrossPhaseError(errors))]
                     /\ raises' = [raises EXCEPT ![t] = @ + 1]
                ELSE /\ result' = [result EXCEPT ![t] = Returned]
                     /\ UNCHANGED raises
           /\ pc' = [pc EXCEPT ![t] = "done"]
    /\ UNCHANGED <<cfg, arg, serrs, instvars, aggvars, auxvars>>

\* The caller takes the outcome; the call's locals are gone.
Finish(t) ==
    /\ pc[t] = "done"
    /\ pc' = [pc EXCEPT ![t] = "idle"]
    /\ cfg' = [cfg EXCEPT ![t] = NullConfig]
    /\ arg' = [arg EXCEPT ![t] = NullConfig]
    /\ serrs' = [serrs EXCEPT ![t] = <<>>]
    /\ xerrs' = [xerrs EXCEPT ![t] = <<>>]
    /\ xcalled' = [xcalled EXCEPT ![t] = FALSE]
    /\ result' = [result EXCEPT ![t] = Pending]
    /\ raises' = [raises EXCEPT ![t] = 0]
    /\ UNCHANGED <<instvars, aggvars, auxvars>>

\* A caller that is not in a call starts one on a configuration of inputs.
Invoke(t, inputs) ==
    /\ pc[t] = "idle"
    /\ \E c \in inputs : Call(t, c)

\* One caller, one call at a time, any configuration.
Next ==
    \/ Invoke(1, Configs)
    \/ validate_json_schema(1)
    \/ check_cross_reference_gate(1)
    \/ validate_cross_references(1)
    \/ Finish(1)

Spec == Init /\ [][Next]_vars

\* One caller, configurations with null nodes.
NextMalformed ==
    \/ Invoke(1, MalformedConfigs)
    \/ validate_json_schema(1)
    \/ check_cross_reference_gate(1)
    \/ validate_cross_references(1)
    \/ Finish(1)

SpecMalformed == Init /\ [][NextMalformed]_vars

\* Several callers on one instance, their steps interleaved.
NextConc ==
    \E t \in Threads :
        \/ Invoke(t, ConcConfigs)
        \/ validate_json_schema(t)
        \/ check_cross_reference_gate(t)
        \/ validate_cross_references(t)
        \/ Finish(t)

SpecConc == Init /\ [][NextConc]_vars

(***************************************************************************)
(* The aggregation of a phase's error list, on its own.                    *)
(***************************************************************************)
InitAgg ==
    /\ InitValidator
    /\ schema = "builtin"
    /\ aggE \in ErrorLists
    /\ aggSchema = Pending
    /\ aggCross = Pending
    /\ AuxIdle

\* validate_json_schema's "if errors:" branch on the list aggE.
RaiseSchemaPhase ==
    /\ aggSchema = Pending
    /\ aggSchema' = Raised(SchemaPhaseError(aggE))
    /\ UNCHANGED <<callvars, instvars, aggE, aggCross, auxvars>>

\* validate_cross_references' "if errors:" branch on the list aggE.
RaiseCrossPhase ==
    /\ aggCross = Pending
    /\ aggCross' = Raised(CrossPhaseError(aggE))
    /\ UNCHANGED <<callvars, instvars, aggE, aggSchema, auxvars>>

NextAgg == RaiseSchemaPhase \/ RaiseCrossPhase

SpecAgg == InitAgg /\ [][NextAgg]_vars

(***************************************************************************)
(* Construction: ConfigValidator(schema_path), then calls on the instance. *)
(***************************************************************************)
\* No ConfigValidator instance exists.
NoInstance == "<no instance>"

SchemaPathArgs ==
    {Absent, default_schema_path, "test_schema.json", "schema.yaml",
     "invalid_schema.json", "invalid_schema.yaml", "non_existent_schema.yaml",
     "a_directory", "binary_schema.json"}

InitCtor ==
    /\ schema = NoInstance
    /\ schema_path = NoInstance
    /\ loaded = [schema |-> NoInstance, schema_path |-> NoInstance]
    /\ pc = [t \in Threads |-> "idle"]
    /\ cfg = [t \in Threads |-> NullConfig]
    /\ arg = [t \in Threads |-> NullConfig]
    /\ serrs = [t \in Threads |-> <<>>]
    /\ xerrs = [t \in Threads |-> <<>>]
    /\ xcalled = [t \in Threads |-> FALSE]
    /\ result = [t \in Threads |-> Pending]
    /\ raises = [t \in Threads |-> 0]
    /\ AggIdle
    /\ ctor = [status |-> "none", arg |-> Absent, error |-> NoError]
    /\ SchemaIdle
    /\ ErrorIdle
    /\ ConvertIdle
    /\ AnalyzerIdle

\* The constructor that leaves load_schema to the first validate_config.
construct_lazy(schema_path_arg) ==
    /\ ctor.status = "none"
    /\ schema_path' = SchemaPathFor(schema_path_arg)
    /\ schema' = "permissive"
    /\ loaded' = [schema |-> schema', schema_path |-> schema_path']
    /\ ctor' = CtorBuilt(schema_path_arg)
    /\ UNCHANGED <<callvars, aggvars, sdata, sout, verr, vstr, purevars>>

\* ConfigValidator.__init__(schema_path_arg)
construct(schema_path_arg) ==
    /\ ctor.status = "none"
    /\ LET path == SchemaPathFor(schema_path_arg)
           got == load_schema(path)
       IN  IF got.status \in {"raised", "crashed"}
             THEN /\ ctor' = [status |-> got.status, arg |-> schema_path_arg,
                              error |-> got.error]
                  /\ UNCHANGED instvars
             ELSE /\ schema_path' = path
                  /\ schema' = got.schema
                  /\ loaded' = [schema |-> got.schema, schema_path |-> path]
                  /\ ctor' = CtorBuilt(schema_path_arg)
    /\ UNCHANGED <<callvars, aggvars, sdata, sout, verr, vstr, purevars>>

\* The caller drops the instance, or the error, and may construct again.
discard ==
    /\ ctor.status # "none"
    /\ \A t \in Threads : pc[t] = "idle"
    /\ ctor' = [status |-> "none", arg |-> Absent, error |-> NoError]
    /\ schema' = NoInstance
    /\ schema_path' = NoInstance
    /\ loaded' = [schema |-> NoInstance, schema_path |-> NoInstance]
    /\ UNCHANGED <<callvars, aggvars, sdata, sout, verr, vstr, purevars>>

\* validate_config is a method: it needs the instance.
InvokeOnInstance(t, inputs) ==
    /\ schema # NoInstance
    /\ Invoke(t, inputs)

NextCtor ==
    \/ \E p \in SchemaPathArgs : construct(p)
    \/ discard
    \/ InvokeOnInstance(1, ConcConfigs)
    \/ validate_json_schema(1)
    \/ check_cross_reference_gate(1)
    \/ validate_cross_references(1)
    \/ Finish(1)

SpecCtor == InitCtor /\ [][NextCtor]_vars

(***************************************************************************)
(* SchemaValidator(schema).validate(data) on its own.                      *)
(***************************************************************************)
InitSchema ==
    /\ InitValidator
    /\ AggIdle
    /\ ctor = CtorBuilt(schema_path)
    /\ sdata \in SchemaInputs
    /\ sout = NotCalled
    /\ ErrorIdle
    /\ ConvertIdle
    /\ AnalyzerIdle

\* validate letting the library's exception through.
validate_uncaught ==
    /\ sout.status = "pending"
    /\ sout' = IF JsonschemaValidate(sdata, schema) = <<>>
                THEN [status |-> "returned", value |-> <<>>]
                ELSE [status |-> "raised", value |-> JsonschemaValidate(sdata, schema)]
    /\ UNCHANGED <<callvars, instvars, aggvars, ctor, sdata, verr, vstr, purevars>>

\* SchemaValidator.validate
validate ==
    /\ sout.status = "pending"
    /\ sout' = [status |-> "returned", value |-> SchemaValidate(sdata, schema)]
    /\ UNCHANGED <<callvars, instvars, aggvars, ctor, sdata, verr, vstr, purevars>>

NextSchema == validate

SpecSchema == InitSchema /\ [][NextSchema]_vars

(***************************************************************************)
(* ValidationError(message, path, suggestions) and its rendering.          *)
(***************************************************************************)
InitError ==
    /\ InitValidator
    /\ AggIdle
    /\ ctor = CtorBuilt(schema_path)
    /\ SchemaIdle
    /\ verr \in ErrorArgs
    /\ vstr = NotCalled
    /\ ConvertIdle
    /\ AnalyzerIdle

\* ValidationError.__init__: the fields are set and str(error) is
\* format_message() (super().__init__(self.format_message())).
render ==
    /\ vstr.status = "pending"
    /\ vstr' = [status |-> "returned", value |-> format_message(verr)]
    /\ UNCHANGED <<callvars, instvars, aggvars, ctor, sdata, sout, verr, purevars>>

NextError == render

SpecError == InitError /\ [][NextError]_vars

(***************************************************************************)
(* SchemaValidator.convert_jsonschema_error on its own.                    *)
(***************************************************************************)
InitConvert ==
    /\ InitValidator
    /\ AggIdle
    /\ ctor = CtorBuilt(schema_path)
    /\ SchemaIdle
    /\ ErrorIdle
    /\ jerr \in JsErrorVals
    /\ jout = NotCalled
    /\ AnalyzerIdle

\* validator.convert_jsonschema_error(jerr)
convert ==
    /\ jout.status = "pending"
    /\ jout' = [status |-> "returned", value |-> convert_jsonschema_error(jerr)]
    /\ UNCHANGED <<callvars, instvars, aggvars, ctor, sdata, sout, verr, vstr,
                   jerr, adata, aout, app>>

NextConvert == convert

SpecConvert == InitConvert /\ [][NextConvert]_vars

(***************************************************************************)
(* The ConfigAnalyzer functions on their own.                              *)
(***************************************************************************)
InitAnalyzer ==
    /\ InitValidator
    /\ schema = "builtin"
    /\ AggIdle
    /\ ctor = CtorBuilt(schema_path)
    /\ SchemaIdle
    /\ ErrorIdle
    /\ ConvertIdle
    /\ \/ adata \in AnalyzerInputs
       \/ adata \in AnalyzerLongInputs
    /\ aout = NotCalled
    /\ app = NoRun

\* The results of the four analyzers on a configuration, and of the gate
\* that combines two of them.
AnalyzerResults(config) ==
    [alert_names |-> extract_alert_names(GetGroups(config)),
     wiki_alert_names |-> extract_wiki_alert_names(GetWiki(config)),
     has_alerting_rules |-> has_alerting_rules(config),
     has_wiki_knowledgebase |-> has_wiki_knowledgebase(config),
     should_validate |-> should_validate_cross_references(config)]

\* The analyzers reading with subscripts (config['groups'], group['rules'],
\* wiki['knowledgebase']...): an absent key raises KeyError.
analyze_subscript ==
    /\ aout.status = "pending"
    /\ aout' = IF \/ ~adata.has_groups
                   \/ \E i \in 1..Len(adata.groups) :
                         \/ adata.groups[i].name = Absent
                         \/ ~adata.groups[i].has_rules
                         \/ \E j \in 1..Len(adata.groups[i].rules) :
                               adata.groups[i].rules[j].alert = Absent
                   \/ adata.wiki.depth < 4
                THEN [status |-> "raised", value |-> <<>>]
                ELSE [status |-> "returned", value |-> AnalyzerResults(adata)]
    /\ UNCHANGED <<callvars, instvars, aggvars, ctor, sdata, sout, verr, vstr,
                   jerr, jout, adata, app>>

\* extract_alert_names(config.get('groups', [])),
\* extract_wiki_alert_names(config.get('wiki', {})), has_alerting_rules(config)
\* and has_wiki_knowledgebase(config): every lookup is a dict.get with a
\* default, so all four return.
analyze ==
    /\ aout.status = "pending"
    /\ aout' = [status |-> "returned", value |-> AnalyzerResults(adata)]
    /\ UNCHANGED <<callvars, instvars, aggvars, ctor, sdata, sout, verr, vstr,
                   jerr, jout, adata, app>>

NextAnalyzer == analyze

SpecAnalyzer == InitAnalyzer /\ [][NextAnalyzer]_vars

(***************************************************************************)
(* The command line application: PromabbixApp.main and                     *)
(* GenerateTemplateCommand.execute.  A run loads the configuration,        *)
(* validates it with the injected ConfigValidator (schema), renders the    *)
(* template and saves it.  app.calls is the list of the calls made on the  *)
(* loader, the validator, the renderer and the saver.  A text is a         *)
(* sequence of pieces, as in ValidationError.                              *)
(***************************************************************************)
\* --output values: STDOUT, a plain path, a path that holds a closing tag of
\* rich's markup, and a path whose home directory cannot be determined.
TaggedOutput == "out[/x].json"
HomelessOutput == "~nouser/out.json"
Outputs == {"-", "output.json", TaggedOutput, HomelessOutput}

\* The working directories of a run: a plain one, and one whose name holds
\* a closing tag of rich's markup.
Cwds == {"/work", "/work/run[/x]"}

\* str(Path(filename).expanduser().resolve()) as pieces: the working
\* directory in front of the relative path.
PathText(cwd, path) ==
    (IF cwd = "/work/run[/x]" THEN <<"/work/run", TaggedName, "/">> ELSE <<cwd, "/">>)
      \o (IF path = TaggedOutput THEN <<"out", TaggedName, ".json">> ELSE <<path>>)

\* The configurations of the runs: those of the concurrent calls, with and
\* without a null node, the empty mapping of an empty STDIN, and an alert
\* with the tagged name, undocumented and documented.
AppConfigs ==
    MalformedConfigs
      \cup {NullConfig}
      \cup {Config(TRUE, <<Group("alerting_rules", <<AlertRule(TaggedName)>>)>>, TRUE, w) :
              w \in {NoWiki, Wiki({"A"}), Wiki({TaggedName})}}

\* The command line: the entry point, --validate-only, the configuration
\* path and --output ("-" is STDIN or STDOUT), and the working directory.
InitApp ==
    /\ InitValidator
    /\ AggIdle
    /\ ctor = CtorBuilt(schema_path)
    /\ SchemaIdle
    /\ ErrorIdle
    /\ ConvertIdle
    /\ adata = NullConfig
    /\ aout = NotCalled
    /\ \E e \in {"main", "execute"}, v \in BOOLEAN, a \in {"-", "config.yaml"},
          o \in Outputs, d \in Cwds, c \in AppConfigs :
         app = [NoRun EXCEPT !.pc = "start", !.entry = e, !.validate_only = v,
                             !.alertrules = a, !.output = o, !.cwd = d, !.config = c]

appframe == <<callvars, instvars, aggvars, ctor, sdata, sout, verr, vstr, jerr, jout,
              adata, aout>>

\* Console.print(text) with markup on: a closing tag that matches no open
\* tag raises rich's MarkupError.
markup_raises(text) == \E i \in DOMAIN text : text[i] = TaggedName

\* str(e) of that MarkupError: it quotes the tag.
MarkupErrorText ==
    <<"closing tag '", TaggedName, "' at position 0 doesn't match any open tag">>

\* str(e) of the exceptions of the parser and of the renderer: without and
\* with a closing tag taken from the text they quote.
ExceptionTexts ==
    {<<"Failed to parse as YAML or JSON">>,
     <<"Failed to parse as YAML (", TaggedName, ") or JSON">>}

\* str(e) of the exception of a failed read: of STDIN, or of the file, whose
\* resolved path it quotes.
ReadErrorText(run) ==
    IF run.alertrules = "-"
      THEN <<"'utf-8' codec can't decode byte 0xff in position 0: invalid start byte">>
      ELSE <<"[Errno 2] No such file or directory: '">>
             \o PathText(run.cwd, run.alertrules) \o <<"'">>

\* str(e) of the AttributeError of a null node.
AttributeErrorText == <<"'NoneType' object has no attribute 'get'">>

\* The run ends with the exit code.
Exit(run, code) == [run EXCEPT !.pc = "exit", !.exit = code]

\* The run ends with an exception that leaves the entry point.
Escape(run) == [run EXCEPT !.pc = "exit", !.escaped = TRUE]

\* "except Exception" printing through the console in both entry points.
handle_exception_console(run, text) ==
    IF markup_raises(text) THEN Escape(run) ELSE Exit(run, 1)

\* "except Exception as e" of the entry point.  main prints with
\* print(f"Error: {e}", file=sys.stderr) and returns 1; execute prints with
\* self.console.print(f"[red]Error: {e}[/red]"), which raises on a closing
\* tag in the text, and the MarkupError leaves execute.
handle_exception(run, text) ==
    IF run.entry = "execute" /\ markup_raises(text) THEN Escape(run) ELSE Exit(run, 1)

\* "except ValidationError as e: self.print_validation_error(e); return 1".
\* print_validation_error prints f"[red]{error}[/red]" through the console:
\* a closing tag in str(error) raises MarkupError inside the handler.  In
\* main it reaches "except Exception" of main; in execute it leaves execute,
\* a handler of the same try statement not being tried again.
handle_validation_error(run, error) ==
    IF markup_raises(format_message(error))
      THEN IF run.entry = "main"
             THEN handle_exception(run, MarkupErrorText)
             ELSE Escape(run)
      ELSE Exit(run, 1)

\* load_configuration: the loader returns the parsed configuration, or
\* raises (unreadable file or STDIN, unparsable text) and the exception
\* reaches "except Exception" of the entry point.
load_configuration ==
    /\ app.pc = "start"
    /\ \E raised \in {<<>>, ReadErrorText(app)} \cup ExceptionTexts :
         LET called == [app EXCEPT !.calls = Append(@, IF app.alertrules = "-"
                                                         THEN "load_from_stdin"
                                                         ELSE "load_from_file")]
         IN  app' = IF raised # <<>>
                      THEN handle_exception([called EXCEPT !.failed = "load"], raised)
                      ELSE [called EXCEPT !.pc = "loaded"]
    /\ UNCHANGED appframe

\* self.validator.validate_config(config_data) in handle_validation_only_mode,
\* handle_normal_mode and execute: a ValidationError goes to its handler,
\* any other exception to "except Exception"; with --validate-only a passed
\* validation prints the success line and gives 0.
validate_configuration ==
    /\ app.pc = "loaded"
    /\ LET outcome == validate_config(app.config, schema)
           called == [app EXCEPT !.calls = Append(@, "validate_config"),
                                 !.validation = outcome]
       IN  app' = IF outcome.status = "raised"
                    THEN handle_validation_error([called EXCEPT !.failed = "validate"],
                                                 outcome.error)
                  ELSE IF outcome.status = "crashed"
                    THEN handle_exception([called EXCEPT !.failed = "validate"],
                                          AttributeErrorText)
                  ELSE IF app.validate_only
                    THEN Exit(called, 0)
                  ELSE [called EXCEPT !.pc = "validated"]
    /\ UNCHANGED appframe

\* Rendering that does not wait for the validation.
generate_template_unvalidated ==
    /\ app.pc \in {"loaded", "validated"}
    /\ \E content \in {"text", "empty"}, raised \in {<<>>} \cup ExceptionTexts :
         LET called == [app EXCEPT !.calls = Append(@, "render_file")]
         IN  app' = IF raised # <<>>
                      THEN handle_exception([called EXCEPT !.failed = "render"], raised)
                      ELSE [called EXCEPT !.pc = "rendered", !.content = content]
    /\ UNCHANGED appframe

\* generate_template: Render().render_file returns the text, possibly
\* empty, or raises; no handler of the modes catches the exception and it
\* reaches "except Exception" of the entry point.
generate_template ==
    /\ app.pc = "validated"
    /\ \E content \in {"text", "empty"}, raised \in {<<>>} \cup ExceptionTexts :
         LET called == [app EXCEPT !.calls = Append(@, "render_file")]
         IN  app' = IF raised # <<>>
                      THEN handle_exception([called EXCEPT !.failed = "render"], raised)
                      ELSE [called EXCEPT !.pc = "rendered", !.content = content]
    /\ UNCHANGED appframe

\* DataSaver.save_to_stdout on the run: the text is written, or a write or
\* the flush fails after nothing or a part was written; the handler prints
\* the error and raises it again.
save_to_stdout(run, write, emitted) ==
    LET called == [run EXCEPT !.calls = Append(@, "save_to_stdout"), !.write = write]
    IN  IF write = "ok"
          THEN Exit([called EXCEPT !.stdout = "written"], 0)
          ELSE handle_exception([called EXCEPT !.stdout = emitted, !.failed = "save"],
                                <<"[Errno 32] Broken pipe">>)

\* DataSaver.save_to_file on the run.
\*  - expanduser() raises RuntimeError before the try for a home directory
\*    that cannot be determined.
\*  - write "ok": write_text wrote the file; print(f"Data saved to
\*    {file_path}.") raises MarkupError on a resolved path that holds a tag
\*    (in the working directory or in the file name), the handler prints
\*    that error, whose text quotes the tag, raises again, and the
\*    exception leaves save_to_file with the file written.
\*  - write "open_fails": write_text failed to open the file (no directory,
\*    no permission), no file exists; the handler prints the OSError, whose
\*    text holds the path, and save_to_file returns, or the print raises on
\*    a tagged path.
\*  - write "write_fails": write_text failed after opening the file (no
\*    space, unencodable text), the file is empty; the handler prints the
\*    error and save_to_file returns.
\* After save_to_file returned the mode returns 0.
save_to_file(run, write) ==
    LET called == [run EXCEPT !.calls = Append(@, "save_to_file")]
    IN  IF run.output = HomelessOutput
          THEN handle_exception([called EXCEPT !.write = "unresolved", !.failed = "save"],
                                <<"Could not determine home directory.">>)
        ELSE IF write = "ok"
          THEN IF markup_raises(<<"Data saved to ">> \o PathText(run.cwd, run.output)
                                  \o <<".">>)
                 THEN handle_exception([called EXCEPT !.write = write, !.file = "written",
                                                      !.failed = "save"],
                                       MarkupErrorText)
                 ELSE Exit([called EXCEPT !.write = write, !.file = "written"], 0)
        ELSE IF write = "open_fails"
          THEN IF markup_raises(<<"[Errno 13] Permission denied: '">>
                                  \o PathText(run.cwd, run.output) \o <<"'">>)
                 THEN handle_exception([called EXCEPT !.write = write, !.failed = "save"],
                                       MarkupErrorText)
                 ELSE Exit([called EXCEPT !.write = write], 0)
        ELSE Exit([called EXCEPT !.write = write, !.file = "empty"], 0)

\* save_template: STDOUT for "-", the file otherwise; it is called for
\* every rendered text, the empty one included.
save_template ==
    /\ app.pc = "rendered"
    /\ \E write \in {"ok", "open_fails", "write_fails"}, emitted \in {"nothing", "partial"} :
         app' = IF app.output = "-"
                  THEN save_to_stdout(app, IF write = "ok" THEN "ok" ELSE "failed", emitted)
                  ELSE save_to_file(app, write)
    /\ UNCHANGED appframe

NextApp ==
    \/ load_configuration
    \/ validate_configuration
    \/ generate_template
    \/ save_template

SpecApp == InitApp /\ [][NextApp]_vars

(***************************************************************************)
(* Properties.                                                             *)
(***************************************************************************)
\* The gate of the cross-reference check on a configuration.
GateOpen(config) == has_alerting_rules(config) /\ has_wiki_knowledgebase(config)

\* The declared alerts without documentation.
Missing(config) ==
    extract_alert_names(GetGroups(config)) \ extract_wiki_alert_names(GetWiki(config))

\* The documented names that are no declared alert.
Extra(config) ==
    extract_wiki_alert_names(GetWiki(config)) \ extract_alert_names(GetGroups(config))

\* The names a message cites.
NamesIn(message) == {message[i] : i \in 1..Len(message)} \cap Names

Active == {t \in Threads : pc[t] # "idle"}
Done == {t \in Threads : pc[t] = "done"}

\* C1: when has_alerting_rules or has_wiki_knowledgebase is false,
\* validate_alert_wiki_consistency returns the empty list, the
\* cross-reference validator is not run by validate_config, and an error
\* validate_config raises is the error of the schema phase.
C1_GateClosedNoCrossReferenceError ==
    \A t \in Active :
        ~GateOpen(arg[t]) =>
            /\ validate_alert_wiki_consistency(arg[t]) = <<>>
            /\ ~xcalled[t]
            /\ xerrs[t] = <<>>
            /\ pc[t] = "done" /\ result[t].status = "raised" =>
                   /\ serrs[t] # <<>>
                   /\ result[t].error = SchemaPhaseError(serrs[t])

\* C1 witness: a finished call on a configuration that declares an alert,
\* documents none (empty alertings mapping), and passed.
C1_Witness ==
    \E t \in Done :
        /\ has_alerting_rules(arg[t])
        /\ arg[t].wiki.depth = 4
        /\ ~has_wiki_knowledgebase(arg[t])
        /\ Missing(arg[t]) # {}
        /\ result[t] = Returned

\* C2: with the gate open and undocumented alerts, validate_alert_wiki_consistency
\* returns exactly one error, at path wiki.knowledgebase.alerts.alertings, whose
\* message lists exactly the missing names in ascending order.
C2_ExactlyOneMissingDocsError ==
    \A t \in Active :
        GateOpen(arg[t]) /\ Missing(arg[t]) # {} =>
            LET errors == validate_alert_wiki_consistency(arg[t])
            IN  /\ Len(errors) = 1
                /\ errors[1].path = WikiPath
                /\ Tail(errors[1].message) = Sorted(Missing(arg[t]))
                /\ NamesIn(errors[1].message) = Missing(arg[t])

\* C3: a structurally valid configuration whose declared alerts are all
\* documented passes validate_config, and validate_alert_wiki_consistency
\* reports nothing, also when more names are documented than declared.
C3_ExtraDocumentationTolerated ==
    \A t \in Done :
        /\ SchemaValidate(arg[t], loaded.schema) = <<>>
        /\ Missing(arg[t]) = {}
        => /\ result[t] = Returned
           /\ validate_alert_wiki_consistency(arg[t]) = <<>>

\* C4: validate_config returns normally exactly when the schema phase
\* yields no error and the cross-reference phase is skipped by the gate or
\* yields no error; otherwise it raises exactly one error.
C4_NoPartialSuccess ==
    \A t \in Done :
        LET passes == /\ SchemaValidate(arg[t], loaded.schema) = <<>>
                      /\ \/ ~should_validate_cross_references(arg[t])
                         \/ CrossReferenceErrors(arg[t]) = <<>>
        IN  /\ result[t].status \in {"returned", "raised"}
            /\ result[t].status = "returned" <=> passes
            /\ result[t].status = "returned" => raises[t] = 0
            /\ result[t].status = "raised" => raises[t] = 1

\* C4 witness: a call that passed the schema phase and raised in the
\* cross-reference phase.
C4_Witness ==
    \E t \in Done :
        /\ serrs[t] = <<>>
        /\ xerrs[t] # <<>>
        /\ result[t].status = "raised"
        /\ raises[t] = 1

\* C5: the cross-reference phase starts only after the schema phase ended
\* without error; a call whose schema phase found an error never runs the
\* cross-reference validator and raises the schema error, which cites no
\* undocumented alert.
C5_SchemaPhaseFirst ==
    \A t \in Active :
        /\ (pc[t] \in {"gate", "xref"} \/ xcalled[t]) =>
               /\ serrs[t] = <<>>
               /\ SchemaValidate(arg[t], loaded.schema) = <<>>
        /\ serrs[t] # <<>> =>
               /\ pc[t] = "done"
               /\ ~xcalled[t]
               /\ xerrs[t] = <<>>
               /\ result[t] = Raised(SchemaPhaseError(serrs[t]))
               /\ NamesIn(result[t].error.message) = {}

\* C5 witness: a finished call with a schema error on a configuration whose
\* gate is open and whose alerts lack documentation.
C5_Witness ==
    \E t \in Done :
        /\ serrs[t] # <<>>
        /\ GateOpen(arg[t])
        /\ Missing(arg[t]) # {}

\* The first position of a piece in a text, 0 when it is not there.
FirstPos(text, piece) ==
    IF \E p \in 1..Len(text) : text[p] = piece
      THEN CHOOSE p \in 1..Len(text) :
             /\ text[p] = piece
             /\ \A q \in 1..(p - 1) : text[q] # piece
      ELSE 0

ErrorMarker(i) == "Error " \o NumStr(i) \o ": "

\* C6: what the schema phase raises for a non-empty error list E: E[1]
\* itself when E has one error; otherwise one error without path whose
\* message holds, for i = 1..|E| in this order, the marker "Error i:"
\* directly followed by the whole rendering of E[i].
C6_AggregationKeepsEveryError ==
    aggSchema.status # "pending" =>
        /\ aggSchema.status = "raised"
        /\ Len(aggE) = 1 => aggSchema.error = aggE[1]
        /\ Len(aggE) >= 2 =>
             LET m == aggSchema.error.message
                 at(i) == FirstPos(m, ErrorMarker(i))
             IN  /\ aggSchema.error.path = NonePath
                 /\ \A i \in 1..Len(aggE) :
                      /\ at(i) > 0
                      /\ i > 1 => at(i - 1) < at(i)
                      /\ SubSeq(m, at(i) + 1, at(i) + Len(format_message(aggE[i])))
                           = format_message(aggE[i])

\* C6 witness: the aggregation of two different errors, the second with a
\* path and suggestions.
C6_Witness ==
    /\ aggSchema.status = "raised"
    /\ Len(aggE) >= 2
    /\ aggE[1] # aggE[2]
    /\ aggE[2].path # NonePath
    /\ aggE[2].suggestions # <<>>

\* C7: the schema phase reports every violation: a configuration with k
\* violations yields at least k errors, and with k >= 2 validate_config
\* raises a message holding "Error 1:" and "Error 2:".
C7_EveryViolationReported ==
    \A t \in Done :
        Len(Violations(arg[t], loaded.schema)) >= 2 =>
            /\ Len(serrs[t]) >= Len(Violations(arg[t], loaded.schema))
            /\ FirstPos(result[t].error.message, ErrorMarker(1)) > 0
            /\ FirstPos(result[t].error.message, ErrorMarker(2)) > 0

\* C8: two finished calls on the same instance with the same configuration
\* have the same outcome, whatever calls ran before or between them.
C8_Idempotent ==
    \A t \in Done : \A u \in Done :
        arg[t] = arg[u] => result[t] = result[u]

\* C8 witness: two finished calls with the same configuration, both raised.
C8_Witness ==
    \E t \in Done : \E u \in Done :
        /\ t # u
        /\ arg[t] = arg[u]
        /\ result[t].status = "raised"
        /\ result[u].status = "raised"

\* C9: during and after a call the configuration object equals the one
\* passed in, and the instance's schema and schema_path are those loaded
\* by the constructor.
C9_ReadOnly ==
    /\ \A t \in Active : cfg[t] = arg[t]
    /\ schema = loaded.schema
    /\ schema_path = loaded.schema_path

\* C9 witness: a call on a configuration with groups and without a wiki
\* key that passed the schema phase and the gate and returned.
C9_Witness ==
    \E t \in Done :
        /\ arg[t].wiki.depth = 0
        /\ arg[t].has_groups
        /\ arg[t].groups # <<>>
        /\ serrs[t] = <<>>
        /\ result[t] = Returned

\* C10: whatever the interleaving of the calls on one instance, a finished
\* call has the outcome validate_config has on its configuration alone.
C10_ConcurrentCallsIndependent ==
    \A t \in Done : result[t] = validate_config(arg[t], loaded.schema)

\* C10 witness: a call that raised in the cross-reference phase while
\* another call, on a different configuration, is between its phases.
C10_Witness ==
    \E t \in Done : \E u \in Threads :
        /\ u # t
        /\ pc[u] \in {"gate", "xref"}
        /\ arg[u] # arg[t]
        /\ xcalled[t]
        /\ result[t].status = "raised"

\* C11: constructing with a schema path that names no file raises, in the
\* constructor, the ValidationError "Schema file not found: <path>"; no
\* instance exists afterwards and no validate_config call runs.
C11_MissingSchemaRaisesAtConstruction ==
    ctor.status # "none" /\ FileAt(SchemaPathFor(ctor.arg)) = "missing" =>
        /\ ctor.status = "raised"
        /\ ctor.error.message = <<"Schema file not found: " \o ctor.arg>>
        /\ schema = NoInstance
        /\ \A t \in Threads : pc[t] = "idle"

\* C11 witness: the constructor was called with the path of no file.
C11_Witness ==
    /\ ctor.status = "raised"
    /\ ctor.arg = "non_existent_schema.yaml"

\* C12: constructing with a schema file that is malformed JSON or
\* malformed YAML raises, in the constructor, a ValidationError whose
\* message starts with "Invalid format in schema file".
C12_UnparsableSchemaInvalidFormat ==
    ctor.status # "none"
      /\ FileAt(SchemaPathFor(ctor.arg)) \in {"bad_json", "bad_yaml"} =>
        /\ ctor.status = "raised"
        /\ ctor.error.message[1] = "Invalid format in schema file: "

\* The absent required root fields of a configuration.
AbsentRootFields(config) ==
    (IF config.has_groups THEN {} ELSE {"groups"})
      \cup (IF config.has_zabbix THEN {} ELSE {"zabbix"})

\* C13: under the bundled schema SchemaValidator.validate yields, for each
\* of groups and zabbix that is absent, an error with path "root" whose
\* suggestion is "Add the required field: <field>".
C13_RequiredRootFieldSuggestion ==
    sout.status = "returned" /\ schema = "builtin" =>
        \A field \in AbsentRootFields(sdata) :
            \E k \in 1..Len(sout.value) :
                /\ sout.value[k].path = "root"
                /\ sout.value[k].suggestions = <<"Add the required field: " \o field>>

\* The path of rule j of group i, with the index attached to the key or
\* set off by a dot.
RulePaths(i, j) ==
    {"groups[" \o NumStr(i - 1) \o "].rules[" \o NumStr(j - 1) \o "]",
     "groups.[" \o NumStr(i - 1) \o "].rules.[" \o NumStr(j - 1) \o "]"}

\* The positions of the errors of a list that carry one of the paths.
ErrorsAt(errors, paths) == {k \in 1..Len(errors) : errors[k].path \in paths}

\* C14: under the bundled schema every rule that lacks the key of its
\* group's kind or lacks expr makes validate_config raise, with one error
\* of its own per violation at the rule's path; a complete rule has no
\* error at its path.
C14_RuleKindRequirements ==
    \A t \in Done :
        loaded.schema = "builtin" =>
            \A i \in 1..Len(GetGroups(arg[t])) :
                \A j \in 1..Len(GetRules(GetGroups(arg[t])[i])) :
                    LET n == Len(RuleViolations(GetGroups(arg[t])[i], i, j))
                        at == ErrorsAt(serrs[t], RulePaths(i, j))
                    IN  IF n > 0
                          THEN result[t].status = "raised" /\ Cardinality(at) = n
                          ELSE at = {}

\* C15: under the bundled schema every group whose name is not one of the
\* two legal names makes validate_config raise with an error that cites the
\* invalid name and both legal names; groups sharing a legal name raise no
\* error about their names.
C15_GroupNameEnum ==
    \A t \in Done :
        loaded.schema = "builtin" =>
            \A i \in 1..Len(GetGroups(arg[t])) :
                LET name == GetGroups(arg[t])[i].name
                IN  IF name \notin {Absent, "recording_rules", "alerting_rules"}
                      THEN /\ result[t].status = "raised"
                           /\ \E k \in 1..Len(serrs[t]) :
                                /\ serrs[t][k].message[1] = "'" \o name \o "'"
                                /\ serrs[t][k].suggestions =
                                     <<"Use one of the allowed values: recording_rules, alerting_rules">>
                      ELSE \A k \in 1..Len(serrs[t]) : serrs[t][k].message[1] # "'" \o name \o "'"

\* The path of host i, in either notation.
HostPaths(i) ==
    {"zabbix.hosts[" \o NumStr(i - 1) \o "]", "zabbix.hosts.[" \o NumStr(i - 1) \o "]"}

\* The required keys a host lacks.
MissingHostFields(host) ==
    (IF host.host_name THEN {} ELSE {"host_name"})
      \cup (IF host.host_groups THEN {} ELSE {"host_groups"})
      \cup (IF host.link_templates THEN {} ELSE {"link_templates"})

\* C16: under the bundled schema a host that is a mapping has one error at
\* its path per required key it lacks (host_name, host_groups,
\* link_templates) and none for a missing visible_name.
C16_HostRequiredFields ==
    sout.status = "returned" /\ schema = "builtin" /\ sdata.has_zabbix =>
        \A i \in 1..Len(sdata.hosts) :
            sdata.hosts[i].type = "object" =>
                Cardinality(ErrorsAt(sout.value, HostPaths(i)))
                    = Cardinality(MissingHostFields(sdata.hosts[i]))

\* data conforms to the schema of the validator.
Conforms(data, s) == Violations(data, s) = <<>>

\* C19: SchemaValidator.validate returns, for every data, a list of
\* ValidationError and never raises; the list is empty exactly when the
\* data conforms to the schema.
C19_ValidateReturnsErrorList ==
    sout.status # "pending" =>
        /\ sout.status = "returned"
        /\ \A k \in 1..Len(sout.value) :
              DOMAIN sout.value[k] = {"message", "path", "suggestions"}
        /\ (sout.value = <<>>) <=> Conforms(sdata, schema)

\* C19 witness: validate returned the error of a groups value that is not a
\* list, under the schema that only declares the type of groups.
C19_Witness ==
    /\ sout.status = "returned"
    /\ schema = "permissive"
    /\ sdata.groups_type = "string"
    /\ Len(sout.value) = 1
    /\ sout.value[1].suggestions = <<"Change value to type: array">>

\* C17: the rendering of an error is its message, then a line
\* "Path: <path>" exactly when the path is set (neither None nor empty),
\* then a line "Suggestions:" and one line "  - <suggestion>" per suggestion
\* in list order exactly when there are suggestions; the lines are joined by
\* a newline and the rendering holds nothing else.
C17_RenderingLayout ==
    vstr.status = "returned" =>
        LET out == vstr.value
            m == Len(verr.message)
            has_path == verr.path \notin {NonePath, ""}
            p == IF has_path THEN 3 ELSE 0
            n == Len(verr.suggestions)
        IN  /\ Len(out) = m + p + (IF n > 0 THEN 2 + 3 * n ELSE 0)
            /\ SubSeq(out, 1, m) = verr.message
            /\ has_path => SubSeq(out, m + 1, m + 3) = <<NL, "Path: ", verr.path>>
            /\ n > 0 =>
                 /\ SubSeq(out, m + p + 1, m + p + 2) = <<NL, "Suggestions:">>
                 /\ \A i \in 1..n :
                      SubSeq(out, m + p + 3 * i, m + p + 3 * i + 2)
                        = <<NL, "  - ", verr.suggestions[i]>>

\* C17 witness: an error with a path and two different suggestions was
\* rendered.
C17_Witness ==
    /\ vstr.status = "returned"
    /\ verr.path = "groups[0].rules[0].record"
    /\ Len(verr.suggestions) = 2
    /\ verr.suggestions[1] # verr.suggestions[2]

\* C18: a violation at the key sequence (groups, i, rules, j, field) gets
\* the path "groups[i].rules[j].field": the index attached to the preceding
\* key, the keys separated by one dot.
C18_PathNotation ==
    jout.status = "returned" /\ Len(jerr.absolute_path) = 5 =>
        jout.value.path =
            jerr.absolute_path[1].v \o "[" \o jerr.absolute_path[2].v \o "]."
              \o jerr.absolute_path[3].v \o "[" \o jerr.absolute_path[4].v \o "]."
              \o jerr.absolute_path[5].v

\* The groups of a configuration that have the name alerting_rules and the
\* key rules.
AlertingGroups(config) ==
    IF config.has_groups
      THEN {i \in 1..Len(config.groups) :
              config.groups[i].name = "alerting_rules" /\ config.groups[i].has_rules}
      ELSE {}

\* C20: the four analyzers return for every configuration, whatever keys
\* are absent: without groups, or with groups that lack name or rules, or
\* rules that lack alert, there are no alert names and no alerting rules;
\* with the wiki cut short at any level there are no wiki alert names and
\* no knowledgebase.
C20_AnalyzersTolerateAbsence ==
    aout.status # "pending" =>
        /\ aout.status = "returned"
        /\ aout.value.alert_names =
             {a \in Names : \E i \in AlertingGroups(adata) :
                              \E j \in 1..Len(adata.groups[i].rules) :
                                adata.groups[i].rules[j].alert = a}
        /\ aout.value.has_alerting_rules <=> aout.value.alert_names # {}
        /\ adata.wiki.depth < 4 =>
             /\ aout.value.wiki_alert_names = {}
             /\ ~aout.value.has_wiki_knowledgebase
        /\ adata.wiki.depth = 4 =>
             /\ aout.value.wiki_alert_names = adata.wiki.alertings
             /\ aout.value.has_wiki_knowledgebase <=> adata.wiki.alertings # {}

\* C20 witness: the analyzers returned for a group without name and a wiki
\* without knowledgebase.
C20_Witness ==
    /\ aout.status = "returned"
    /\ adata.has_groups
    /\ Len(adata.groups) = 1
    /\ adata.groups[1].name = Absent
    /\ adata.groups[1].has_rules
    /\ Len(adata.groups[1].rules) = 1
    /\ adata.groups[1].rules[1].alert = "A"
    /\ adata.wiki.depth = 1
    /\ aout.value.alert_names = {}

\* C21: extract_alert_names(groups) is exactly the set of the non-empty
\* alert values of the rules of the groups named alerting_rules: every
\* such value is in it, every element of it is one, and groups of any other
\* name add nothing.
C21_ExtractAlertNamesExact ==
    aout.status = "returned" =>
        LET groups == IF adata.has_groups THEN adata.groups ELSE <<>>
            found == aout.value.alert_names
        IN  /\ \A a \in found :
                 /\ a \notin {Absent, ""}
                 /\ \E i \in 1..Len(groups) :
                      /\ groups[i].name = "alerting_rules"
                      /\ \E j \in 1..Len(groups[i].rules) : groups[i].rules[j].alert = a
            /\ \A i \in 1..Len(groups) :
                 groups[i].name = "alerting_rules" =>
                     \A j \in 1..Len(groups[i].rules) :
                         groups[i].rules[j].alert \notin {Absent, ""} =>
                             groups[i].rules[j].alert \in found
            /\ (\A i \in 1..Len(groups) : groups[i].name # "alerting_rules") => found = {}

\* C21 witness: two alerting_rules groups, one with alert A and one with
\* alert B, gave the union of their names.
C21_Witness ==
    /\ aout.status = "returned"
    /\ adata.has_groups
    /\ Len(adata.groups) = 2
    /\ adata.groups[1].name = "alerting_rules"
    /\ adata.groups[2].name = "alerting_rules"
    /\ Len(adata.groups[1].rules) = 1
    /\ Len(adata.groups[2].rules) = 1
    /\ adata.groups[1].rules[1].alert = "A"
    /\ adata.groups[2].rules[1].alert = "B"
    /\ aout.value.alert_names = {"A", "B"}

\* C30: has_alerting_rules is true exactly when extract_alert_names is
\* non-empty, has_wiki_knowledgebase is true exactly when
\* extract_wiki_alert_names is non-empty, and with the gate open both sets
\* are non-empty.
C30_GateAgreesWithExtraction ==
    aout.status = "returned" =>
        /\ aout.value.has_alerting_rules <=> aout.value.alert_names # {}
        /\ aout.value.has_wiki_knowledgebase <=> aout.value.wiki_alert_names # {}
        /\ aout.value.should_validate =>
             aout.value.alert_names # {} /\ aout.value.wiki_alert_names # {}

\* C30 witness: an alerting_rules group whose only rule has an empty alert,
\* with a documented name: no alerting rules, gate closed.
C30_Witness ==
    /\ aout.status = "returned"
    /\ adata.has_groups
    /\ Len(adata.groups) = 1
    /\ adata.groups[1].name = "alerting_rules"
    /\ Len(adata.groups[1].rules) = 1
    /\ adata.groups[1].rules[1].alert = ""
    /\ aout.value.has_wiki_knowledgebase
    /\ ~aout.value.has_alerting_rules
    /\ ~aout.value.should_validate

\* C26 as stated: with the gate open, a declared alert without
\* documentation and a documented name that is no declared alert,
\* validate_alert_wiki_consistency returns the empty list.
C26_ConsistencyCheckDisabled ==
    \A t \in Done :
        xcalled[t] /\ Missing(arg[t]) # {} /\ Extra(arg[t]) # {} => xerrs[t] = <<>>

\* C26 amended: with the gate open and a declared alert without
\* documentation, validate_alert_wiki_consistency returns a non-empty list
\* whose first error is the missing-documentation error naming exactly the
\* undocumented alerts, also when the wiki documents other names; the call
\* of validate_config raises.
C26_MissingDocsErrorReturned ==
    \A t \in Done :
        xcalled[t] /\ Missing(arg[t]) # {} =>
            /\ xerrs[t] # <<>>
            /\ xerrs[t][1].message[1] = "Alerts missing wiki documentation: "
            /\ NamesIn(xerrs[t][1].message) = Missing(arg[t])
            /\ xerrs[t][1].path = WikiPath
            /\ result[t].status = "raised"

\* C26 witness: a finished call whose configuration declares an alert
\* without documentation while the wiki documents another name.
C26_Witness ==
    \E t \in Done :
        /\ xcalled[t]
        /\ Missing(arg[t]) = {"A"}
        /\ Extra(arg[t]) = {"B"}
        /\ Len(xerrs[t]) >= 1

\* C27: the cross-reference phase yields at most one error, so
\* validate_config never raises the error whose message starts with
\* "Multiple cross-reference validation errors found".
C27_AtMostOneCrossReferenceError ==
    \A t \in Done :
        /\ Len(xerrs[t]) <= 1
        /\ result[t].status = "raised" =>
             result[t].error.message[1] # "Multiple cross-reference validation errors found:"

\* C28: every call of validate_config ends by returning or by raising
\* ValidationError, also on a configuration with a null node that passes
\* the schema phase; no other exception leaves the gate or the extraction.
C28_OnlyValidationErrorRaised ==
    \A t \in Done : result[t].status \in {"returned", "raised"}


\* C22: with --validate-only the run stops after validate_config: the
\* renderer and the savers (file, STDOUT) are never invoked, no output is
\* created, and the exit code is 0 when the validation passed and 1 when
\* it raised ValidationError.
C22_ValidateOnlyStopsAfterValidation ==
    app.validate_only /\ app.pc # "none" =>
        LET invoked == {app.calls[i] : i \in DOMAIN app.calls}
        IN  /\ invoked \cap {"render_file", "save_to_file", "save_to_stdout"} = {}
            /\ app.file = "absent"
            /\ app.stdout = "nothing"
            /\ app.validation.status # "pending" => app.pc = "exit"
            /\ app.validation.status = "returned" => app.exit = 0
            /\ app.validation.status = "raised" => app.exit = 1

C24_MainNeverPropagates ==
    app.entry = "main" /\ app.pc = "exit" =>
        /\ ~app.escaped
        /\ app.exit \in {0, 1}
        /\ app.failed \in {"load", "render", "save"} => app.exit = 1
        /\ app.failed \in {"load", "render"} =>
              \A i \in DOMAIN app.calls :
                  app.calls[i] \notin {"save_to_file", "save_to_stdout"}

\* C24 witness: save_to_file wrote the file and then raised on printing the
\* tagged path; main returned 1.
C24_Witness ==
    /\ app.entry = "main"
    /\ app.pc = "exit"
    /\ app.failed = "save"
    /\ app.file = "written"
    /\ app.exit = 1
    /\ ~app.escaped

\* C25: without --validate-only, when the renderer returned an empty text,
\* neither save_to_file nor save_to_stdout is invoked.
C25_EmptyOutputNotSaved ==
    ~app.validate_only /\ app.content = "empty" =>
        \A i \in DOMAIN app.calls :
            app.calls[i] \notin {"save_to_file", "save_to_stdout"}

\* C29: without --validate-only an exit code of 0 means that the rendered
\* text was written to the requested output, after exactly one load, one
\* validation, one rendering and one save in this order; a failed write in
\* the saver gives the exit code 1, never 0.
C29_ExitZeroMeansWritten ==
    ~app.validate_only /\ app.pc = "exit" =>
        /\ app.exit = 0 =>
              /\ app.calls = <<IF app.alertrules = "-" THEN "load_from_stdin"
                                                      ELSE "load_from_file",
                               "validate_config", "render_file",
                               IF app.output = "-" THEN "save_to_stdout"
                                                   ELSE "save_to_file">>
              /\ IF app.output = "-" THEN app.stdout = "written"
                                     ELSE app.file = "written"
        /\ app.write \in {"failed", "open_fails", "write_fails"} => app.exit = 1

====
